---- MODULE Spec2Model ----
(***************************************************************************)
(* Model of the schema/data engine of cms-json (src/unnamed/part_000, the  *)
(* module imported as '../cms' by src/app/components/content.tsx).         *)
(*                                                                         *)
(* Strings are sequences of one-character strings, so that slugify, the    *)
(* " (k)" suffixes, path splitting/joining and parseInt are computed the   *)
(* way the code computes them.  JavaScript values are records              *)
(*   [k, s, e, p, n]  (kind, characters, array elements, named             *)
(* properties, number) with every field of one fixed shape.                *)
(* Schema objects and data objects are nested values; a reference to one   *)
(* of them is its address from the root (child indexes for the schema,     *)
(* property keys for the data).                                            *)
(***************************************************************************)
EXTENDS Integers, Sequences, FiniteSets, TLC

(***************************************************************************)
(* Program constants                                                       *)
(***************************************************************************)
TYPE_TREE == "tree"
TYPE_MAP_OBJECT == "map<object>"
TYPE_MAP_STRING == "map<string>"
TYPE_LIST_OBJECT == "list<object>"
FIELD_TYPE_STRING == "string"
FIELD_TYPE_BOOLEAN == "boolean"
FIELD_TYPE_ARRAY == "array"
FIELD_TYPE_MARKDOWN == "markdown"

\* the value of an absent `type` property (of a Model or of a Field)
NoType == "undefined"

NodeTypes == {TYPE_TREE, TYPE_MAP_OBJECT, TYPE_MAP_STRING, TYPE_LIST_OBJECT}

(***************************************************************************)
(* Characters and strings                                                  *)
(***************************************************************************)
UpperCase == <<"A", "B", "C", "D", "E", "F", "G", "H", "I", "J", "K", "L", "M",
               "N", "O", "P", "Q", "R", "S", "T", "U", "V", "W", "X", "Y", "Z">>
LowerCase == <<"a", "b", "c", "d", "e", "f", "g", "h", "i", "j", "k", "l", "m",
               "n", "o", "p", "q", "r", "s", "t", "u", "v", "w", "x", "y", "z">>
Digits == <<"0", "1", "2", "3", "4", "5", "6", "7", "8", "9">>

\* the characters matched by the regular expression \s that the model uses
Whitespace == {" "}

toLowerCase(c) ==
    IF \E i \in DOMAIN UpperCase : UpperCase[i] = c
    THEN LowerCase[CHOOSE i \in DOMAIN UpperCase : UpperCase[i] = c]
    ELSE c

\* str.replace(/\s/g, '_').replace(/\//g, '-').toLowerCase(), one character
SlugChar(c) ==
    LET c1 == IF c \in Whitespace THEN "_" ELSE c
        c2 == IF c1 = "/" THEN "-" ELSE c1
    IN  toLowerCase(c2)

slugify(str) == [i \in 1..Len(str) |-> SlugChar(str[i])]

IsDigit(c) == \E i \in DOMAIN Digits : Digits[i] = c
DigitVal(c) == (CHOOSE i \in DOMAIN Digits : Digits[i] = c) - 1

\* decimal representation of a natural number / of an integer
RECURSIVE NatToStr(_)
NatToStr(n) ==
    IF n < 10 THEN <<Digits[n + 1]>>
    ELSE NatToStr(n \div 10) \o <<Digits[(n % 10) + 1]>>

NumToStr(n) == IF n < 0 THEN <<"-">> \o NatToStr(0 - n) ELSE NatToStr(n)

\* String.prototype.split('/')
RECURSIVE SplitFrom(_, _)
SplitFrom(str, cur) ==
    IF str = <<>> THEN <<cur>>
    ELSE IF Head(str) = "/" THEN <<cur>> \o SplitFrom(Tail(str), <<>>)
    ELSE SplitFrom(Tail(str), Append(cur, Head(str)))

Split(str) == SplitFrom(str, <<>>)

\* Array.prototype.join('/')
RECURSIVE Join(_)
Join(segs) ==
    IF segs = <<>> THEN <<>>
    ELSE IF Len(segs) = 1 THEN segs[1]
    ELSE segs[1] \o <<"/">> \o Join(Tail(segs))

(***************************************************************************)
(* JavaScript values                                                       *)
(***************************************************************************)
JsVal(k, s, e, p, n) == [k |-> k, s |-> s, e |-> e, p |-> p, n |-> n]

Undefined == JsVal("undefined", <<>>, <<>>, <<>>, 0)
NaN == JsVal("NaN", <<>>, <<>>, <<>>, 0)
JsNum(n) == JsVal("number", <<>>, <<>>, <<>>, n)
JsStr(s) == JsVal("string", s, <<>>, <<>>, 0)
JsBool(b) == JsVal(IF b THEN "true" ELSE "false", <<>>, <<>>, <<>>, 0)
\* an array: its elements and its other own properties
JsArr(e, p) == JsVal("array", <<>>, e, p, 0)
\* a plain object: its own properties
JsObj(p) == JsVal("object", <<>>, <<>>, p, 0)
EmptyObj == JsObj(<<>>)
EmptyArr == JsArr(<<>>, <<>>)

IsRef(v) == v.k \in {"array", "object"}

\* ToBoolean
Truthy(v) ==
    CASE v.k \in {"undefined", "NaN", "false"} -> FALSE
      [] v.k = "true" -> TRUE
      [] v.k = "number" -> v.n # 0
      [] v.k = "string" -> v.s # <<>>
      [] OTHER -> TRUE

\* parseInt(str): leading whitespace, an optional sign, the longest prefix of
\* decimal digits; NaN when there is no digit
RECURSIVE SkipSpace(_)
SkipSpace(str) ==
    IF str # <<>> /\ Head(str) \in Whitespace THEN SkipSpace(Tail(str)) ELSE str

RECURSIVE DigitPrefix(_)
DigitPrefix(str) ==
    IF str # <<>> /\ IsDigit(Head(str))
    THEN <<Head(str)>> \o DigitPrefix(Tail(str))
    ELSE <<>>

RECURSIVE DigitsValue(_, _)
DigitsValue(ds, acc) ==
    IF ds = <<>> THEN acc
    ELSE DigitsValue(Tail(ds), acc * 10 + DigitVal(Head(ds)))

parseInt(str) ==
    LET t == SkipSpace(str)
        signed == t # <<>> /\ Head(t) \in {"-", "+"}
        neg == t # <<>> /\ Head(t) = "-"
        ds == DigitPrefix(IF signed THEN Tail(t) ELSE t)
    IN  IF ds = <<>> THEN NaN
        ELSE JsNum(IF neg THEN 0 - DigitsValue(ds, 0) ELSE DigitsValue(ds, 0))

\* "" + value
RECURSIVE Stringify(_)
RECURSIVE JoinComma(_)
JoinComma(elems) ==
    IF elems = <<>> THEN <<>>
    ELSE LET h == IF elems[1].k = "undefined" THEN <<>> ELSE Stringify(elems[1])
         IN  IF Len(elems) = 1 THEN h
             ELSE h \o <<",">> \o JoinComma(Tail(elems))

Stringify(v) ==
    CASE v.k = "undefined" -> <<"u", "n", "d", "e", "f", "i", "n", "e", "d">>
      [] v.k = "NaN" -> <<"N", "a", "N">>
      [] v.k = "true" -> <<"t", "r", "u", "e">>
      [] v.k = "false" -> <<"f", "a", "l", "s", "e">>
      [] v.k = "number" -> NumToStr(v.n)
      [] v.k = "string" -> v.s
      [] v.k = "array" -> JoinComma(v.e)
      [] OTHER -> <<"[", "o", "b", "j", "e", "c", "t", " ",
                     "O", "b", "j", "e", "c", "t", "]">>

\* the property key a value used as an index denotes (node.data[dataIndex])
ToPropertyKey(idx) == Stringify(idx)

\* key is a canonical array index ("0", "1", ...): decimal digits without
\* a leading zero
IsArrayIndex(key) ==
    /\ key # <<>>
    /\ \A i \in DOMAIN key : IsDigit(key[i])
    /\ (Len(key) = 1 \/ key[1] # "0")

\* the position in e of the element a canonical array index denotes
ElemPos(key) == DigitsValue(key, 0) + 1

\* a property every value inherits from its prototype: v.constructor is a
\* function for every object, array, string, number and boolean, unless an
\* own property of that name shadows it
nConstructor == <<"c", "o", "n", "s", "t", "r", "u", "c", "t", "o", "r">>
InheritedKeys == {nConstructor}
Inherited == JsVal("function", <<>>, <<>>, <<>>, 0)

\* v[key] for a value that is neither undefined nor null: an own property,
\* else an inherited one, else undefined
GetProp(v, key) ==
    IF v.k = "array" /\ IsArrayIndex(key)
    THEN IF ElemPos(key) \in DOMAIN v.e THEN v.e[ElemPos(key)] ELSE Undefined
    ELSE IF v.k = "string" /\ IsArrayIndex(key)
    THEN IF ElemPos(key) \in DOMAIN v.s THEN JsStr(<<v.s[ElemPos(key)]>>) ELSE Undefined
    ELSE IF key \in DOMAIN v.p THEN v.p[key]
    ELSE IF key \in InheritedKeys THEN Inherited
    ELSE Undefined

\* v[key] = val on an array or a plain object
SetProp(v, key, val) ==
    IF v.k = "array" /\ IsArrayIndex(key)
    THEN [v EXCEPT !.e = [j \in (DOMAIN v.e) \cup (1..ElemPos(key)) |->
                             IF j = ElemPos(key) THEN val
                             ELSE IF j \in DOMAIN v.e THEN v.e[j]
                             ELSE Undefined]]
    ELSE [v EXCEPT !.p = [x \in (DOMAIN v.p) \cup {key} |->
                             IF x = key THEN val ELSE v.p[x]]]

\* delete v[key] on an array or a plain object
DelProp(v, key) ==
    IF v.k = "array" /\ IsArrayIndex(key)
    THEN IF ElemPos(key) \in DOMAIN v.e THEN [v EXCEPT !.e[ElemPos(key)] = Undefined] ELSE v
    ELSE [v EXCEPT !.p = [x \in (DOMAIN v.p) \ {key} |-> v.p[x]]]

\* Object.keys(v): the own enumerable property keys
OwnKeys(v) ==
    IF v.k = "array"
    THEN {NatToStr(i - 1) : i \in DOMAIN v.e} \cup DOMAIN v.p
    ELSE DOMAIN v.p

(***************************************************************************)
(* Schema nodes (Model), field declarations and the document               *)
(***************************************************************************)
\* interface Model {name, type?, list?, children?, fields?}; hasChildren and
\* hasFields tell whether the optional property is present
Model(name, type, hasChildren, children, hasFields, fields) ==
    [name |-> name, type |-> type, list |-> FALSE,
     hasChildren |-> hasChildren, children |-> children,
     hasFields |-> hasFields, fields |-> fields]

\* a field declaration: a bare display name (bare) or {name, type, key};
\* an absent type is NoType, an absent key is FALSE
BareField(name) == [bare |-> TRUE, name |-> name, type |-> NoType, key |-> FALSE]
Field(name, type, key) == [bare |-> FALSE, name |-> name, type |-> type, key |-> key]

getField(f) == [f EXCEPT !.bare = FALSE]

getFields(m) == IF m.hasFields THEN [i \in DOMAIN m.fields |-> getField(m.fields[i])] ELSE <<>>

isKeyField(f) == (~f.bare) /\ f.key

\* getNodeType(node), on node.model
getNodeType(m) ==
    IF m.type # NoType THEN m.type
    ELSE IF m.list THEN TYPE_LIST_OBJECT
    ELSE TYPE_TREE

isMapType(m) == getNodeType(m) \in {TYPE_MAP_STRING, TYPE_MAP_OBJECT}

isItem(m) == getNodeType(m) \in {TYPE_LIST_OBJECT, TYPE_MAP_OBJECT, TYPE_MAP_STRING}

fieldName(f) == slugify(f.name)

\* model.fields[0] is read without a check: callers guard hasFields
defaultFieldName(m) == slugify(m.fields[1].name)

\* the schema object at an address (child indexes from the root)
RECURSIVE ModelAt(_, _)
ModelAt(m, a) ==
    IF a = <<>> THEN m ELSE ModelAt(m.children[Head(a)], Tail(a))

RECURSIVE ModelSet(_, _, _)
ModelSet(m, a, new) ==
    IF a = <<>> THEN new
    ELSE [m EXCEPT !.children[Head(a)] = ModelSet(@, Tail(a), new)]

\* the data object at an address (property keys from the root data)
RECURSIVE DataAt(_, _)
DataAt(d, a) ==
    IF a = <<>> THEN d ELSE DataAt(GetProp(d, Head(a)), Tail(a))

RECURSIVE DataSet(_, _, _)
DataSet(d, a, new) ==
    IF a = <<>> THEN new
    ELSE SetProp(d, Head(a), DataSet(GetProp(d, Head(a)), Tail(a), new))

(***************************************************************************)
(* Node projections.  A projection is the chain of frames from the root    *)
(* projection to the node: the `parent` of a projection is the chain       *)
(* without its last frame.  A frame holds the reference to its schema      *)
(* object (maddr), the reference to its data (daddr when the data is an    *)
(* object of the document, dval when it is a detached or primitive value), *)
(* and path, treePath and dataIndex (Undefined when the property is        *)
(* absent).                                                                *)
(***************************************************************************)
Frame(maddr, dlive, daddr, dval, path, treePath, dataIndex) ==
    [maddr |-> maddr, dlive |-> dlive, daddr |-> daddr, dval |-> dval,
     path |-> path, treePath |-> treePath, dataIndex |-> dataIndex]

\* the projection of the whole document held by the hosting application:
\* the root schema node and the root data, with an empty path
RootNode == <<Frame(<<>>, TRUE, <<>>, Undefined, <<>>, <<>>, JsNum(-1))>>

Last(chain) == chain[Len(chain)]
Parent(chain) == SubSeq(chain, 1, Len(chain) - 1)
HasParent(chain) == Len(chain) > 1

NodeModel(t, chain) == ModelAt(t.model, Last(chain).maddr)
NodeData(t, chain) ==
    IF Last(chain).dlive THEN DataAt(t.data, Last(chain).daddr) ELSE Last(chain).dval

\* the frame of a child whose data is the value v read from the parent's
\* data under key: a reference into the document when v is an object of it
ChildFrame(parentFrame, maddr, key, v, path, treePath, dataIndex) ==
    Frame(maddr, parentFrame.dlive /\ IsRef(v), Append(parentFrame.daddr, key),
          IF parentFrame.dlive /\ IsRef(v) THEN Undefined ELSE v,
          path, treePath, dataIndex)

\* node.path ? (node.path + '/') : ''
PathPrefix(path) == IF path # <<>> THEN path \o <<"/">> ELSE <<>>

Ok(chain) == [err |-> "none", node |-> chain]
Fail(kind) == [err |-> kind, node |-> <<>>]

Min(S) == CHOOSE x \in S : \A y \in S : x <= y

RECURSIVE _findNode(_, _, _)
_findNode(t, chain, path) ==
    LET node == Last(chain)
        m == NodeModel(t, chain)
        nodeType == getNodeType(m)
    IN  IF path = <<>> THEN Ok(chain)
        ELSE LET next == Head(path) IN
          IF nodeType = TYPE_TREE
          THEN IF ~m.hasChildren THEN Fail("TypeError")
               ELSE LET found == {c \in DOMAIN m.children :
                                     slugify(m.children[c].name) = next}
                    IN  IF found = {} THEN Fail("NotFound")
                        ELSE LET c == Min(found)
                                 v == GetProp(NodeData(t, chain), next)
                                 treePath == PathPrefix(node.path) \o next
                             IN  \* getNodeType(childModel) reads
                                 \* childModel.model.type: a TypeError
                                 IF ~Truthy(v) THEN Fail("TypeError")
                                 ELSE _findNode(t,
                                        Append(chain,
                                          ChildFrame(node, Append(node.maddr, c), next, v,
                                                     treePath, treePath, JsNum(-1))),
                                        Tail(path))
          ELSE IF nodeType = TYPE_LIST_OBJECT
          THEN LET dataIndex == parseInt(next)
                   v == GetProp(NodeData(t, chain), ToPropertyKey(dataIndex))
               IN  Ok(Append(chain,
                        Frame(node.maddr, FALSE, <<>>,
                              IF Truthy(v) THEN v ELSE EmptyObj,
                              PathPrefix(node.path) \o next, node.path, dataIndex)))
          ELSE LET v == GetProp(NodeData(t, chain), next)
               IN  Ok(Append(chain,
                        Frame(node.maddr, FALSE, <<>>,
                              IF Truthy(v) THEN v
                              ELSE IF nodeType = TYPE_MAP_OBJECT THEN EmptyObj
                              ELSE JsStr(<<>>),
                              PathPrefix(node.path) \o next, node.path, JsStr(next))))

\* findNode(node, path) for a path string: resolvePath
findNode(t, chain, path) ==
    IF path = <<>> THEN Ok(chain) ELSE _findNode(t, chain, Split(path))

\* getChildren(node): the projections of the declared children; reading
\* node.data[slug] raises a TypeError when node.data is undefined
getChildren(t, chain) ==
    LET node == Last(chain)
        m == NodeModel(t, chain)
        d == NodeData(t, chain)
    IN  IF m.hasChildren /\ Len(m.children) > 0
        THEN IF d.k = "undefined" THEN [err |-> "TypeError", children |-> <<>>]
             ELSE [err |-> "none",
                   children |->
                     [i \in DOMAIN m.children |->
                        LET slug == slugify(m.children[i].name)
                            childPath == PathPrefix(node.path) \o slug
                        IN  Append(chain,
                              ChildFrame(node, Append(node.maddr, i), slug,
                                         GetProp(d, slug), childPath, childPath,
                                         Undefined))]]
        ELSE [err |-> "none", children |-> <<>>]

_findChild(t, chain, slug) ==
    LET node == Last(chain)
        m == NodeModel(t, chain)
        d == NodeData(t, chain)
        found == IF m.hasChildren
                 THEN {i \in DOMAIN m.children : slugify(m.children[i].name) = slug}
                 ELSE {}
    IN  IF found = {} THEN Fail("NotFound")
        ELSE IF d.k = "undefined" THEN Fail("TypeError")
        ELSE LET childPath == node.path \o <<"/">> \o slug
             IN  Ok(Append(chain,
                      ChildFrame(node, Append(node.maddr, Min(found)), slug,
                                 GetProp(d, slug), childPath, childPath, Undefined)))

\* result: {fullPath, treePath (a sequence of segments), dataIndex}
RECURSIVE _treePathAndIndex(_, _, _, _)
_treePathAndIndex(t, chain, path, result) ==
    IF Len(path) > 0
    THEN LET p == Head(path)
             m == NodeModel(t, chain)
         IN  IF m.hasChildren /\ Len(m.children) > 0
             THEN LET child == _findChild(t, chain, p)
                  IN  IF child.err # "none" THEN [result EXCEPT !.err = child.err]
                      ELSE _treePathAndIndex(t, child.node, Tail(path),
                             [result EXCEPT !.treePath = Append(@, p)])
             ELSE IF getNodeType(m) = TYPE_LIST_OBJECT
                  THEN [result EXCEPT !.dataIndex = parseInt(p)]
             ELSE IF getNodeType(m) \in {TYPE_MAP_OBJECT, TYPE_MAP_STRING}
                  THEN [result EXCEPT !.dataIndex = JsStr(p)]
             ELSE [result EXCEPT !.err = "Error"]
    ELSE result

\* treePathAndIndex(tree, path) for a path string; treePath is joined
treePathAndIndex(t, path) ==
    LET res == _treePathAndIndex(t, RootNode,
                  IF Len(path) > 0 THEN Split(path) ELSE <<>>,
                  [err |-> "none", fullPath |-> path, treePath |-> <<>>,
                   dataIndex |-> JsNum(-1)])
    IN  [res EXCEPT !.treePath = Join(@)]

\* getDataItems(node): the items as a sequence; for the map types the
\* values of the own properties (Object.values), here in array-index then
\* some fixed key order
RECURSIVE SetToSeq(_)
SetToSeq(S) ==
    IF S = {} THEN <<>>
    ELSE LET x == CHOOSE y \in S : TRUE IN <<x>> \o SetToSeq(S \ {x})

ObjectValues(v) ==
    LET ks == SetToSeq(DOMAIN v.p)
    IN  v.e \o [i \in DOMAIN ks |-> v.p[ks[i]]]

\* locators of the items of a data container: array elements, then the
\* other own properties
ElemLocs(d) == [i \in DOMAIN d.e |-> [elem |-> TRUE, i |-> i, key |-> <<>>]]
PropLocs(d) ==
    LET ks == SetToSeq(DOMAIN d.p)
    IN  [i \in DOMAIN ks |-> [elem |-> FALSE, i |-> 0, key |-> ks[i]]]

ItemAt(d, loc) == IF loc.elem THEN d.e[loc.i] ELSE d.p[loc.key]
ItemPut(d, loc, v) ==
    IF loc.elem THEN [d EXCEPT !.e[loc.i] = v] ELSE [d EXCEPT !.p[loc.key] = v]

\* getDataItems(node) as the caller's forEach sees it: the data itself for
\* LIST_OBJECT (forEach exists on arrays only), Object.values(data) for the
\* map types, an Error for any other type
getDataItems(t, chain) ==
    LET d == NodeData(t, chain)
        nodeType == getNodeType(NodeModel(t, chain))
    IN  IF nodeType = TYPE_LIST_OBJECT
        THEN IF d.k = "array" THEN [err |-> "none", locs |-> ElemLocs(d)]
             ELSE [err |-> "TypeError", locs |-> <<>>]
        ELSE IF nodeType \in {TYPE_MAP_OBJECT, TYPE_MAP_STRING}
        THEN IF d.k = "undefined" THEN [err |-> "TypeError", locs |-> <<>>]
             ELSE [err |-> "none", locs |-> ElemLocs(d) \o PropLocs(d)]
        ELSE [err |-> "Error", locs |-> <<>>]

\* the values getDataItems returns
DataItems(t, chain) ==
    LET r == getDataItems(t, chain)
        d == NodeData(t, chain)
    IN  [i \in DOMAIN r.locs |-> ItemAt(d, r.locs[i])]

(***************************************************************************)
(* Type converter                                                          *)
(***************************************************************************)
_convert(value, prevFieldType, newFieldType) ==
    IF newFieldType \in {FIELD_TYPE_STRING, FIELD_TYPE_MARKDOWN}
    THEN [err |-> "none",
          value |-> IF Truthy(value) THEN JsStr(Stringify(value)) ELSE JsStr(<<>>)]
    ELSE IF newFieldType = FIELD_TYPE_BOOLEAN
    THEN [err |-> "none", value |-> JsBool(Truthy(value))]
    ELSE IF newFieldType = FIELD_TYPE_ARRAY
    THEN [err |-> "none", value |-> JsArr(<<value>>, <<>>)]
    ELSE [err |-> "Error", value |-> Undefined]

(***************************************************************************)
(* The bodies of the three forEach callbacks of deleteFieldAt and          *)
(* updateFieldAt, applied to one item.  The module is an ES module, hence  *)
(* strict code: an assignment to a property of a primitive value raises a  *)
(* TypeError, as does any property access on undefined.                    *)
(***************************************************************************)
\* item => delete item[key]
DeleteKeyStep(item, key) ==
    IF item.k = "undefined" THEN [err |-> "TypeError", item |-> item]
    ELSE IF IsRef(item) THEN [err |-> "none", item |-> DelProp(item, key)]
    ELSE [err |-> "none", item |-> item]

\* item => { item[newKey] = item[oldKey]; delete item[oldKey]; }
MoveKeyStep(item, oldKey, newKey) ==
    IF ~IsRef(item) THEN [err |-> "TypeError", item |-> item]
    ELSE [err |-> "none",
          item |-> DelProp(SetProp(item, newKey, GetProp(item, oldKey)), oldKey)]

\* item => { item[key] = _convert(item[key], prevType, newType); }
ConvertStep(item, key, prevType, newType) ==
    IF item.k = "undefined" THEN [err |-> "TypeError", item |-> item]
    ELSE LET c == _convert(GetProp(item, key), prevType, newType)
         IN  IF c.err # "none" THEN [err |-> c.err, item |-> item]
             ELSE IF ~IsRef(item) THEN [err |-> "TypeError", item |-> item]
             ELSE [err |-> "none", item |-> SetProp(item, key, c.value)]

ApplyStep(item, step) ==
    IF step.kind = "delete" THEN DeleteKeyStep(item, step.a)
    ELSE IF step.kind = "move" THEN MoveKeyStep(item, step.a, step.b)
    ELSE ConvertStep(item, step.a, step.prevType, step.newType)

Step(kind, a, b, prevType, newType) ==
    [kind |-> kind, a |-> a, b |-> b, prevType |-> prevType, newType |-> newType]

\* items.forEach(callback) on the container data d: the items before the
\* first one whose callback throws keep their change
RECURSIVE ForEachItem(_, _, _)
ForEachItem(d, locs, step) ==
    IF locs = <<>> THEN [err |-> "none", data |-> d]
    ELSE LET Applied(r) ==
                 IF r.err # "none" THEN [err |-> r.err, data |-> d]
                 ELSE ForEachItem(ItemPut(d, Head(locs), r.item), Tail(locs), step)
         IN  Applied(ApplyStep(ItemAt(d, Head(locs)), step))

\* getDataItems(structNode).forEach(callback), written back to the document
MigrateItems(t, structChain, step) ==
    LET Written(r) ==
            [err |-> r.err,
             tree |-> IF Last(structChain).dlive
                      THEN [t EXCEPT !.data = DataSet(@, Last(structChain).daddr, r.data)]
                      ELSE t]
        Each(items) ==
            IF items.err # "none" THEN [err |-> items.err, tree |-> t]
            ELSE Written(ForEachItem(NodeData(t, structChain), items.locs, step))
    IN  Each(getDataItems(t, structChain))

\* node.data = d for the data object a projection refers to
WriteData(t, chain, d) ==
    IF Last(chain).dlive THEN [t EXCEPT !.data = DataSet(@, Last(chain).daddr, d)] ELSE t

WriteModel(t, chain, m) == [t EXCEPT !.model = ModelSet(@, Last(chain).maddr, m)]

(***************************************************************************)
(* Mutation operations - nodes                                             *)
(***************************************************************************)
Suffixed(newName, idx) ==
    IF idx = 1 THEN newName ELSE newName \o <<" ", "(">> \o NumToStr(idx) \o <<")">>

\* _findNewNodeName without the probe of the siblings' names
_findNewNodeName_NoProbe(m, newName, idx) == Suffixed(newName, idx)

\* _findNewNodeName that probes once and takes the next number unprobed
_findNewNodeName_ProbeOnce(m, newName, idx) ==
    IF m.hasChildren /\ \E i \in DOMAIN m.children : m.children[i].name = Suffixed(newName, idx)
    THEN Suffixed(newName, idx + 1)
    ELSE Suffixed(newName, idx)

RECURSIVE _findNewNodeName(_, _, _)
_findNewNodeName(m, newName, idx) ==
    LET fullName == Suffixed(newName, idx)
    IN  IF m.hasChildren /\ \E i \in DOMAIN m.children : m.children[i].name = fullName
        THEN _findNewNodeName(m, newName, idx + 1)
        ELSE fullName

\* the schema node and the data container addNode creates for a type
NewModel(name, nodeType) ==
    IF nodeType = TYPE_TREE THEN Model(name, nodeType, TRUE, <<>>, FALSE, <<>>)
    ELSE IF nodeType = TYPE_MAP_OBJECT
    THEN Model(name, nodeType, FALSE, <<>>, TRUE,
               <<Field(<<"K", "e", "y">>, NoType, TRUE)>>)
    ELSE IF nodeType = TYPE_MAP_STRING
    THEN Model(name, nodeType, FALSE, <<>>, TRUE,
               <<Field(<<"K", "e", "y">>, NoType, TRUE),
                 BareField(<<"V", "a", "l", "u", "e">>)>>)
    ELSE IF nodeType = TYPE_LIST_OBJECT
    THEN Model(name, nodeType, FALSE, <<>>, TRUE, <<BareField(<<"N", "a", "m", "e">>)>>)
    ELSE Model(name, nodeType, FALSE, <<>>, FALSE, <<>>)

NewData(nodeType) ==
    IF nodeType \in {TYPE_TREE, TYPE_MAP_OBJECT, TYPE_MAP_STRING} THEN EmptyObj
    ELSE IF nodeType = TYPE_LIST_OBJECT THEN EmptyArr
    ELSE Undefined

\* result: the document afterwards, the error raised ("none" when the call
\* returns) and the returned projection
addNode(t, chain, requestedName, nodeType) ==
    LET node == Last(chain)
        m == NodeModel(t, chain)
        newModel == NewModel(_findNewNodeName(m, requestedName, 1), nodeType)
        newData == NewData(nodeType)
        slug == slugify(newModel.name)
        children == IF m.hasChildren THEN m.children ELSE <<>>
        t1 == WriteModel(t, chain,
                [m EXCEPT !.hasChildren = TRUE, !.children = Append(children, newModel)])
        d == NodeData(t, chain)
        path == node.path \o <<"/">> \o slug
    IN  IF ~IsRef(d) THEN [tree |-> t1, err |-> "TypeError", node |-> <<>>]
        ELSE [tree |-> WriteData(t1, chain, SetProp(d, slug, newData)),
              err |-> "none",
              node |-> Append(chain,
                         Frame(Append(node.maddr, Len(children) + 1),
                               node.dlive, Append(node.daddr, slug),
                               IF node.dlive THEN Undefined ELSE newData,
                               path, path, JsNum(-1)))]

deleteNode(t, chain) ==
    IF ~HasParent(chain) THEN [tree |-> t, err |-> "TypeError"]
    ELSE LET parentNode == Parent(chain)
             pm == NodeModel(t, parentNode)
             name == NodeModel(t, chain).name
         IN  IF ~pm.hasChildren THEN [tree |-> t, err |-> "TypeError"]
             ELSE LET found == {i \in DOMAIN pm.children : pm.children[i].name = name}
                  IN  IF found = {} THEN [tree |-> t, err |-> "Error"]
                      ELSE LET i == Min(found)
                               t1 == WriteModel(t, parentNode,
                                       [pm EXCEPT !.children =
                                          SubSeq(@, 1, i - 1) \o SubSeq(@, i + 1, Len(@))])
                               pd == NodeData(t, parentNode)
                           IN  IF pd.k = "undefined" THEN [tree |-> t1, err |-> "TypeError"]
                               ELSE IF ~IsRef(pd) THEN [tree |-> t1, err |-> "none"]
                               ELSE [tree |-> WriteData(t1, parentNode,
                                                DelProp(pd, slugify(name))),
                                     err |-> "none"]

\* result: the document afterwards, the error, and the projection with its
\* recomputed path
renameNode(t, chain, name) ==
    LET node == Last(chain)
        m == NodeModel(t, chain)
        previousName == m.name
        t1 == WriteModel(t, chain, [m EXCEPT !.name = name])
    IN  IF ~HasParent(chain) THEN [tree |-> t1, err |-> "none", node |-> chain]
        ELSE LET parentNode == Parent(chain)
                 pd == NodeData(t1, parentNode)
                 parentPath == Last(parentNode).path
                 path == IF parentPath # <<>>
                         THEN parentPath \o <<"/">> \o slugify(name)
                         ELSE slugify(name)
             IN  IF ~IsRef(pd) THEN [tree |-> t1, err |-> "TypeError", node |-> chain]
                 ELSE [tree |-> WriteData(t1, parentNode,
                                  DelProp(SetProp(pd, slugify(name),
                                                  GetProp(pd, slugify(previousName))),
                                          slugify(previousName))),
                       err |-> "none",
                       node |-> [chain EXCEPT ![Len(chain)] =
                                   [node EXCEPT !.path = path, !.treePath = path]]]

(***************************************************************************)
(* Mutation operations - items                                             *)
(***************************************************************************)
\* _findNewMapKey without the probe of node.data
_findNewMapKey_NoProbe(d, newName, idx) == Suffixed(newName, idx)

\* probes node.data[fullName] (d is node.data, an object or an array)
RECURSIVE _findNewMapKey(_, _, _)
_findNewMapKey(d, newName, idx) ==
    LET fullName == Suffixed(newName, idx)
    IN  IF GetProp(d, fullName).k # "undefined"
        THEN _findNewMapKey(d, newName, idx + 1)
        ELSE fullName

\* probes item[fieldName] of the items (items is the sequence the loop
\* walks: the elements of node.data when it is an array, nothing otherwise)
RECURSIVE _findNewListItemName(_, _, _, _)
_findNewListItemName(items, fld, newName, idx) ==
    LET fullName == Suffixed(newName, idx)
    IN  IF \E i \in DOMAIN items : GetProp(items[i], fld) = JsStr(fullName)
        THEN _findNewListItemName(items, fld, newName, idx + 1)
        ELSE fullName

NewValue == <<"N", "e", "w", " ", "v", "a", "l", "u", "e">>

\* the index one past the pushed item
PushedIndex_OnePast(d) == JsNum(Len(d.e))

\* dataIndex = node.data.length - 1, after the push (d is the array pushed to)
PushedIndex(d) == JsNum(Len(d.e) - 1)

AddItemFail(t, kind) ==
    [tree |-> t, err |-> kind, dataIndex |-> Undefined, item |-> Undefined]

\* result: the document afterwards, the error, and the returned
\* {dataIndex, item}
addItem(t, chain, requestedName) ==
    LET m == NodeModel(t, chain)
        d == NodeData(t, chain)
        nodeType == getNodeType(m)
    IN  IF nodeType \in {TYPE_MAP_OBJECT, TYPE_MAP_STRING}
        THEN LET item == IF nodeType = TYPE_MAP_OBJECT THEN EmptyObj ELSE JsStr(NewValue)
             IN  IF ~IsRef(d) THEN AddItemFail(t, "TypeError")
                 ELSE LET dataIndex == _findNewMapKey(d, requestedName, 1)
                      IN  [tree |-> WriteData(t, chain, SetProp(d, dataIndex, item)),
                           err |-> "none",
                           dataIndex |-> JsStr(dataIndex),
                           item |-> item]
        ELSE IF nodeType = TYPE_LIST_OBJECT
        THEN IF (~m.hasFields) \/ m.fields = <<>> THEN AddItemFail(t, "TypeError")
             ELSE IF d.k = "undefined" THEN AddItemFail(t, "TypeError")
             ELSE IF \E i \in DOMAIN d.e : d.e[i].k = "undefined"
             THEN AddItemFail(t, "TypeError")
             ELSE LET fld == defaultFieldName(m)
                      name == _findNewListItemName(d.e, fld, requestedName, 1)
                      item == SetProp(EmptyObj, fld, JsStr(name))
                  IN  \* node.data.push exists on arrays only
                      IF d.k # "array" THEN AddItemFail(t, "TypeError")
                      ELSE LET pushed == [d EXCEPT !.e = Append(@, item)]
                           IN  [tree |-> WriteData(t, chain, pushed),
                                err |-> "none",
                                dataIndex |-> PushedIndex(pushed),
                                item |-> item]
        ELSE AddItemFail(t, "Error")

(***************************************************************************)
(* Mutation operations - fields.  Field indexes are 0-based as in the      *)
(* code; fields[i] of the code is m.fields[i + 1].                         *)
(***************************************************************************)
getFieldAt(m, fieldIndex) ==
    IF fieldIndex < 0 THEN [err |-> "NegativeIndex", field |-> BareField(<<>>)]
    ELSE IF m.hasFields /\ fieldIndex < Len(m.fields)
    THEN [err |-> "none", field |-> getField(m.fields[fieldIndex + 1])]
    ELSE [err |-> "NoField", field |-> BareField(<<>>)]

\* _checkDeleteFieldAt without the test of field.key
_checkDeleteFieldAt_NoKeyCheck(t, chain, fieldIndex) ==
    LET m == NodeModel(t, chain)
        r == getFieldAt(m, fieldIndex)
    IN  IF r.err # "none" THEN r
        ELSE IF getNodeType(m) = TYPE_MAP_STRING THEN [r EXCEPT !.err = "ValueField"]
        ELSE r

_checkDeleteFieldAt(t, chain, fieldIndex) ==
    LET m == NodeModel(t, chain)
        r == getFieldAt(m, fieldIndex)
    IN  IF r.err # "none" THEN r
        ELSE IF r.field.key THEN [r EXCEPT !.err = "KeyField"]
        ELSE IF getNodeType(m) = TYPE_MAP_STRING THEN [r EXCEPT !.err = "ValueField"]
        ELSE r

canDeleteFieldAt(t, chain, fieldIndex) ==
    _checkDeleteFieldAt(t, chain, fieldIndex).err = "none"

\* node.dataIndex !== -1 ? node.parent : node; <<>> stands for an
\* undefined parent
_getStructNode(chain) ==
    IF Last(chain).dataIndex # JsNum(-1) THEN Parent(chain) ELSE chain

deleteFieldAt(t, chain, fieldIndex) ==
    LET structNode == _getStructNode(chain)
        Spliced(r) ==
            IF r.err # "none" THEN [tree |-> r.tree, err |-> r.err]
            ELSE [tree |-> WriteModel(r.tree, chain,
                             [NodeModel(t, chain) EXCEPT !.fields =
                                SubSeq(@, 1, fieldIndex) \o
                                SubSeq(@, fieldIndex + 2, Len(@))]),
                  err |-> "none"]
        Checked(chk) ==
            IF chk.err # "none" THEN [tree |-> t, err |-> chk.err]
            ELSE IF structNode = <<>> THEN [tree |-> t, err |-> "TypeError"]
            ELSE Spliced(MigrateItems(t, structNode,
                           Step("delete", slugify(chk.field.name), <<>>, NoType, NoType)))
    IN  Checked(_checkDeleteFieldAt(t, chain, fieldIndex))

\* fieldIndex is a JavaScript value: a number or undefined
updateFieldAt(t, chain, fieldIndex, field) ==
    LET m == NodeModel(t, chain)
    IN  IF fieldIndex.k = "undefined" \/ fieldIndex = JsNum(-1)
        THEN IF ~m.hasFields THEN [tree |-> t, err |-> "TypeError"]
             ELSE [tree |-> WriteModel(t, chain, [m EXCEPT !.fields = Append(@, field)]),
                   err |-> "none"]
        ELSE LET ix == fieldIndex.n + 1
                 structNode == _getStructNode(chain)
             IN  IF (~m.hasFields) \/ fieldIndex.k # "number" \/ ix \notin DOMAIN m.fields
                    \/ structNode = <<>>
                 THEN [tree |-> t, err |-> "TypeError"]
                 ELSE LET newField == getField(field)
                          prevField == getField(m.fields[ix])
                          nodeType == getNodeType(NodeModel(t, structNode))
                          \* node.model.fields[fieldIndex] = field
                          Declared(r2) ==
                              IF r2.err # "none" THEN [tree |-> r2.tree, err |-> r2.err]
                              ELSE [tree |-> WriteModel(r2.tree, chain,
                                               [m EXCEPT !.fields[ix] = field]),
                                    err |-> "none"]
                          \* if (newField.type !== prevField.type) ...
                          Retyped(r1) ==
                              Declared(IF r1.err = "none" /\ newField.type # prevField.type
                                       THEN MigrateItems(r1.tree, structNode,
                                              Step("convert", slugify(newField.name), <<>>,
                                                   prevField.type, newField.type))
                                       ELSE r1)
                      IN  \* if (newField.name !== prevField.name && ...) ...
                          Retyped(IF newField.name # prevField.name
                                     /\ nodeType \in {TYPE_LIST_OBJECT, TYPE_MAP_OBJECT}
                                     /\ ~newField.key
                                  THEN MigrateItems(t, structNode,
                                         Step("move", slugify(prevField.name),
                                              slugify(newField.name), NoType, NoType))
                                  ELSE [err |-> "none", tree |-> t])

(***************************************************************************)
(* Bounds and the inputs the calls are drawn from                          *)
(***************************************************************************)
\* number of engine calls in one behaviour
MaxOps == 2

nT == <<"T">>
nt == <<"t">>
nL == <<"L">>
nS == <<"S", " ", "/">>
nName == <<"N", "a", "m", "e">>
nDone == <<"D", "o", "n", "e">>
ndone == <<"d", "o", "n", "e">>
nTitle == <<"T", "i", "t", "l", "e">>
nKey == <<"K", "e", "y">>
nValue == <<"V", "a", "l", "u", "e">>

\* requested node names: an existing display name, a different name with
\* the same slug, a name with whitespace and a slash
NodeNames == {nT, nt, nS}

\* requests made to addNode: an existing display name with every node type,
\* a new display name that has the slug of an existing one
AddRequests ==
    {[name |-> nT, type |-> nodeType] : nodeType \in NodeTypes}
        \cup {[name |-> nt, type |-> TYPE_TREE]}

\* requested item names: an existing map key, an existing list item name
ItemNames == {<<"k", "1">>, <<"x">>}

\* item selectors used as the last path segment
Selectors == {<<"0">>, <<"k", "1">>}

\* field declarations passed to updateFieldAt for an existing field: a new
\* name, a new name with the slug of the old one, new types, a new name
\* together with a type unknown to the converter, a key field, a bare name
NewFields ==
    {Field(nTitle, FIELD_TYPE_STRING, FALSE), Field(ndone, FIELD_TYPE_STRING, FALSE),
     Field(nDone, FIELD_TYPE_BOOLEAN, FALSE), Field(ndone, FIELD_TYPE_BOOLEAN, FALSE),
     Field(nDone, FIELD_TYPE_ARRAY, FALSE), Field(nDone, FIELD_TYPE_MARKDOWN, FALSE),
     Field(nTitle, "number", FALSE), Field(nTitle, NoType, TRUE),
     BareField(nValue)}

\* field declarations passed to updateFieldAt for the first field, the key
\* field of a map: a renamed key field, a field that is no key
KeyFieldUpdates ==
    {Field(nTitle, NoType, TRUE), Field(nTitle, FIELD_TYPE_STRING, FALSE)}

\* field declarations passed to updateFieldAt on the projection of an item
ItemFields ==
    {Field(nTitle, FIELD_TYPE_STRING, FALSE), Field(ndone, FIELD_TYPE_BOOLEAN, FALSE),
     Field(nDone, "number", FALSE)}

\* field declarations appended by updateFieldAt
AddedFields == {Field(nTitle, FIELD_TYPE_STRING, FALSE)}

\* the two ways the callers say "no such field yet"
NoFieldIndexes == {Undefined, JsNum(-1)}

\* the positions of the children deleteFieldAt is called on through
\* getChildren
ChildPositions == 1..2

(***************************************************************************)
(* The documents a behaviour starts from: schema and data consistent       *)
(***************************************************************************)
Obj1(k1, v1) == SetProp(EmptyObj, k1, v1)
Obj2(k1, v1, k2, v2) == SetProp(Obj1(k1, v1), k2, v2)

Doc(model, data) == [model |-> model, data |-> data]

\* a root whose schema has no children property yet
BareDoc == Doc(Model(<<"R">>, TYPE_TREE, FALSE, <<>>, FALSE, <<>>), EmptyObj)

\* root / T (tree) / L (list of objects with two items)
ListDoc ==
    Doc(Model(<<"R">>, TYPE_TREE, TRUE,
          <<Model(nT, TYPE_TREE, TRUE,
              <<Model(nL, TYPE_LIST_OBJECT, FALSE, <<>>, TRUE,
                      <<BareField(nName), Field(nDone, FIELD_TYPE_STRING, FALSE)>>)>>,
              FALSE, <<>>)>>,
          FALSE, <<>>),
        Obj1(<<"t">>,
          Obj1(<<"l">>,
            JsArr(<<Obj2(slugify(nName), JsStr(<<"x">>),
                         slugify(nDone), JsStr(<<"t", "r", "u", "e">>)),
                    Obj2(slugify(nName), JsStr(<<"y">>),
                         slugify(nDone), JsStr(<<>>))>>,
                  <<>>))))

\* root / T (map of objects), root / "S /" (map of strings)
MapDoc ==
    Doc(Model(<<"R">>, TYPE_TREE, TRUE,
          <<Model(nT, TYPE_MAP_OBJECT, FALSE, <<>>, TRUE,
                  <<Field(nKey, NoType, TRUE), Field(nDone, FIELD_TYPE_STRING, FALSE)>>),
            Model(nS, TYPE_MAP_STRING, FALSE, <<>>, TRUE,
                  <<Field(nKey, NoType, TRUE), BareField(nValue)>>)>>,
          FALSE, <<>>),
        Obj2(<<"t">>, Obj1(<<"k", "1">>, Obj1(slugify(nDone), JsStr(<<"x">>))),
             slugify(nS), Obj1(<<"k", "1">>, JsStr(<<"v">>))))

InitialDocs == {BareDoc, ListDoc, MapDoc}

(***************************************************************************)
(* Paths of a document                                                     *)
(***************************************************************************)
RECURSIVE NodeAddrs(_)
NodeAddrs(m) ==
    {<<>>} \cup
    (IF m.hasChildren
     THEN UNION {{<<i>> \o a : a \in NodeAddrs(m.children[i])} : i \in DOMAIN m.children}
     ELSE {})

\* the slugs of the names along an address
RECURSIVE AddrSlugs(_, _)
AddrSlugs(m, a) ==
    IF a = <<>> THEN <<>>
    ELSE <<slugify(m.children[Head(a)].name)>> \o AddrSlugs(m.children[Head(a)], Tail(a))

NodePaths(t) == {Join(AddrSlugs(t.model, a)) : a \in NodeAddrs(t.model)}

ContainerAddrs(t) == {a \in NodeAddrs(t.model) : isItem(ModelAt(t.model, a))}

ContainerPaths(t) == {Join(AddrSlugs(t.model, a)) : a \in ContainerAddrs(t)}

ItemPaths(t) ==
    {Join(Append(AddrSlugs(t.model, a), sel)) : a \in ContainerAddrs(t), sel \in Selectors}

\* the path of the first item of each container
FirstItemPaths(t) ==
    {Join(Append(AddrSlugs(t.model, a), <<"0">>)) : a \in ContainerAddrs(t)}

(***************************************************************************)
(* State                                                                   *)
(***************************************************************************)
VARIABLES
    tree,   \* the document: [model, data]
    prev,   \* the document before the last call
    last,   \* the last call: its arguments, its outcome, what it returned
    nops    \* number of calls made

vars == <<tree, prev, last, nops>>

NoCall ==
    [op |-> "none", path |-> <<>>, target |-> <<>>, name |-> <<>>, nodeType |-> NoType,
     fieldIndex |-> Undefined, field |-> BareField(<<>>), err |-> "none",
     node |-> <<>>, dataIndex |-> Undefined, item |-> Undefined,
     can |-> FALSE, treePath |-> <<>>]

Init ==
    /\ tree \in InitialDocs
    /\ prev = tree
    /\ last = NoCall
    /\ nops = 0

\* the caller resolves path into a projection and calls the operation on it
Resolved(path) == findNode(tree, RootNode, path)

\* A call that leaves the document as it was (a query, a refused call) ends
\* the behaviour: every call that could follow it can follow the call before
\* it as well, from the same document.
Call(t, l) ==
    /\ tree' = t
    /\ prev' = tree
    /\ last' = l
    /\ nops' = IF t = tree THEN MaxOps ELSE nops + 1

\* the hosting application offers addNode on TREE nodes
AddNode(path, requestedName, nodeType) ==
    LET Returns(r, res) ==
            Call(res.tree,
                 [NoCall EXCEPT !.op = "addNode", !.path = path, !.target = r.node,
                                !.name = requestedName, !.nodeType = nodeType,
                                !.err = res.err, !.node = res.node])
        On(r) ==
            /\ r.err = "none"
            /\ getNodeType(NodeModel(tree, r.node)) = TYPE_TREE
            /\ Returns(r, addNode(tree, r.node, requestedName, nodeType))
    IN  nops < MaxOps /\ On(Resolved(path))

DeleteNode(path) ==
    LET Returns(r, res) ==
            Call(res.tree,
                 [NoCall EXCEPT !.op = "deleteNode", !.path = path, !.target = r.node,
                                !.err = res.err])
        On(r) == r.err = "none" /\ Returns(r, deleteNode(tree, r.node))
    IN  nops < MaxOps /\ On(Resolved(path))

RenameNode(path, name) ==
    LET Returns(r, res) ==
            Call(res.tree,
                 [NoCall EXCEPT !.op = "renameNode", !.path = path, !.target = r.node,
                                !.name = name, !.err = res.err, !.node = res.node])
        On(r) == r.err = "none" /\ Returns(r, renameNode(tree, r.node, name))
    IN  nops < MaxOps /\ On(Resolved(path))

\* the hosting application offers addItem on a container that is not a TREE
AddItem(path, requestedName) ==
    LET Returns(r, res) ==
            Call(res.tree,
                 [NoCall EXCEPT !.op = "addItem", !.path = path, !.target = r.node,
                                !.name = requestedName, !.err = res.err,
                                !.dataIndex = res.dataIndex, !.item = res.item])
        On(r) ==
            /\ r.err = "none"
            /\ isItem(NodeModel(tree, r.node))
            /\ Returns(r, addItem(tree, r.node, requestedName))
    IN  nops < MaxOps /\ On(Resolved(path))

DeleteFieldAt(path, fieldIndex) ==
    LET Returns(r, res) ==
            Call(res.tree,
                 [NoCall EXCEPT !.op = "deleteFieldAt", !.path = path, !.target = r.node,
                                !.fieldIndex = JsNum(fieldIndex), !.err = res.err,
                                !.can = canDeleteFieldAt(tree, r.node, fieldIndex)])
        On(r) == r.err = "none" /\ Returns(r, deleteFieldAt(tree, r.node, fieldIndex))
    IN  nops < MaxOps /\ On(Resolved(path))

\* deleteFieldAt on the c-th projection getChildren returns for the node at
\* path, when that child is a container
DeleteFieldAtChild(path, c, fieldIndex) ==
    LET Returns(child, res) ==
            Call(res.tree,
                 [NoCall EXCEPT !.op = "deleteFieldAt", !.path = Last(child).path,
                                !.target = child,
                                !.fieldIndex = JsNum(fieldIndex), !.err = res.err,
                                !.can = canDeleteFieldAt(tree, child, fieldIndex)])
        Child(child) ==
            /\ isItem(NodeModel(tree, child))
            /\ Returns(child, deleteFieldAt(tree, child, fieldIndex))
        Of(kids) ==
            /\ kids.err = "none"
            /\ c \in DOMAIN kids.children
            /\ Child(kids.children[c])
        On(r) == r.err = "none" /\ Of(getChildren(tree, r.node))
    IN  nops < MaxOps /\ On(Resolved(path))

CanDeleteFieldAt(path, fieldIndex) ==
    LET On(r) ==
            /\ r.err = "none"
            /\ Call(tree,
                    [NoCall EXCEPT !.op = "canDeleteFieldAt", !.path = path,
                                   !.target = r.node, !.fieldIndex = JsNum(fieldIndex),
                                   !.can = canDeleteFieldAt(tree, r.node, fieldIndex)])
    IN  nops < MaxOps /\ On(Resolved(path))

UpdateFieldAt(path, fieldIndex, field) ==
    LET Returns(r, res) ==
            Call(res.tree,
                 [NoCall EXCEPT !.op = "updateFieldAt", !.path = path, !.target = r.node,
                                !.fieldIndex = fieldIndex, !.field = field,
                                !.err = res.err])
        On(r) == r.err = "none" /\ Returns(r, updateFieldAt(tree, r.node, fieldIndex, field))
    IN  nops < MaxOps /\ On(Resolved(path))

TreePathAndIndex(path) ==
    LET Returns(res) ==
            Call(tree,
                 [NoCall EXCEPT !.op = "treePathAndIndex", !.path = path, !.err = res.err,
                                !.treePath = res.treePath, !.dataIndex = res.dataIndex])
    IN  nops < MaxOps /\ Returns(treePathAndIndex(tree, path))

Next ==
    \/ \E path \in NodePaths(tree), req \in AddRequests :
          AddNode(path, req.name, req.type)
    \/ \E path \in NodePaths(tree) : DeleteNode(path)
    \/ \E path \in NodePaths(tree), name \in NodeNames : RenameNode(path, name)
    \/ \E path \in ContainerPaths(tree), name \in ItemNames : AddItem(path, name)
    \/ \E path \in ContainerPaths(tree) \cup FirstItemPaths(tree), i \in 0..1 :
          DeleteFieldAt(path, i)
    \/ \E path \in NodePaths(tree), c \in ChildPositions, i \in 0..1 :
          DeleteFieldAtChild(path, c, i)
    \/ \E path \in ContainerPaths(tree), i \in 0..1 : CanDeleteFieldAt(path, i)
    \/ \E path \in ContainerPaths(tree), field \in NewFields :
          UpdateFieldAt(path, JsNum(1), field)
    \/ \E path \in ContainerPaths(tree), field \in KeyFieldUpdates :
          UpdateFieldAt(path, JsNum(0), field)
    \/ \E path \in FirstItemPaths(tree), field \in ItemFields :
          UpdateFieldAt(path, JsNum(1), field)
    \/ \E path \in NodePaths(tree), i \in NoFieldIndexes, field \in AddedFields :
          UpdateFieldAt(path, i, field)
    \/ \E path \in NodePaths(tree) \cup ItemPaths(tree) : TreePathAndIndex(path)

Spec == Init /\ [][Next]_vars

TypeOK == nops \in 0..MaxOps

(***************************************************************************)
(* Vocabulary of the properties                                            *)
(***************************************************************************)
NodeOps == {"addNode", "deleteNode", "renameNode"}

\* the data object of the schema node at address a: the value found by
\* following the slugs of the names from the root data
DataOf(t, a) == DataAt(t.data, AddrSlugs(t.model, a))

TreeAddrs(t) == {a \in NodeAddrs(t.model) : getNodeType(ModelAt(t.model, a)) = TYPE_TREE}

ChildNames(m) == {m.children[i].name : i \in DOMAIN m.children}
ChildSlugs(m) == {slugify(m.children[i].name) : i \in DOMAIN m.children}

\* schema and data of every TREE node agree on the keys
KeysMatchChildren(t) ==
    \A a \in TreeAddrs(t) :
        /\ IsRef(DataOf(t, a))
        /\ OwnKeys(DataOf(t, a)) = ChildSlugs(ModelAt(t.model, a))

\* no two children of a TREE node have the same display name
UniqueNames(t) ==
    \A a \in TreeAddrs(t) :
        LET m == ModelAt(t.model, a)
        IN  \A i, j \in DOMAIN m.children :
                m.children[i].name = m.children[j].name => i = j

\* the last call returned (did not raise)
Returned(op) == last.op = op /\ last.err = "none"

\* the projection the last call was made on, its parent, their schema
\* objects and data before and after the call
Target == last.target
TargetParent == Parent(last.target)

(***************************************************************************)
(* C1.  Claim: in every state reachable from a consistent document by      *)
(* addNode, deleteNode and renameNode, the keys of the data object of each *)
(* TREE node are exactly the slugs of the names of its children.  Stated   *)
(* as a step property: a call of one of the three operations on a          *)
(* consistent document leaves it consistent.                               *)
(***************************************************************************)
C1_KeysMatchChildrenPreserved ==
    [][(KeysMatchChildren(tree) /\ last'.op \in NodeOps) => KeysMatchChildren(tree')]_vars

(***************************************************************************)
(* C2.  Claim: in every state reachable from a document with unique        *)
(* sibling names by addNode, deleteNode and renameNode, no two children of *)
(* a TREE node have the same display name.                                 *)
(***************************************************************************)
C2_UniqueNamesPreserved ==
    [][(UniqueNames(tree) /\ last'.op \in NodeOps) => UniqueNames(tree')]_vars

\* the call l, made on document t, renames a node to the display name of
\* another child of its parent
RenamesOntoSibling(t, l) ==
    /\ l.op = "renameNode"
    /\ HasParent(l.target)
    /\ LET pm == NodeModel(t, Parent(l.target))
           own == Last(Last(l.target).maddr)
       IN  \E i \in DOMAIN pm.children : i # own /\ pm.children[i].name = l.name

\* C2 as amended: addNode, deleteNode and every renameNode whose new name is
\* not the display name of another sibling keep sibling names unique
C2_UniqueNamesUnlessRenamedOntoSibling ==
    [][(UniqueNames(tree) /\ last'.op \in NodeOps /\ ~RenamesOntoSibling(tree, last'))
          => UniqueNames(tree')]_vars

\* a child with a sibling was renamed to a new name no sibling has, and the
\* names are still unique
C2_Witness ==
    /\ Returned("renameNode")
    /\ HasParent(Target)
    /\ Len(NodeModel(prev, TargetParent).children) >= 2
    /\ NodeModel(prev, Target).name # last.name
    /\ ~RenamesOntoSibling(prev, last)
    /\ UniqueNames(prev)
    /\ UniqueNames(tree)

(***************************************************************************)
(* C3.  Claim: addNode(parent, name, type) immediately followed by         *)
(* deleteNode on the returned projection leaves the parent's children      *)
(* sequence and the parent's data object as they were before the addNode.  *)
(* Checked in the state right after addNode, by applying deleteNode to the *)
(* returned projection.  A parent without a children sequence counts as    *)
(* restored when its sequence is empty afterwards.                         *)
(***************************************************************************)
C3_AddThenDeleteRestores ==
    Returned("addNode") =>
        LET r == deleteNode(tree, last.node)
        IN  /\ r.err = "none"
            /\ NodeModel(r.tree, Target).children = NodeModel(prev, Target).children
            /\ NodeData(r.tree, Target) = NodeData(prev, Target)

(***************************************************************************)
(* C4.  Claim: addNode names the new node requestedName when no sibling    *)
(* has that display name, else "requestedName (k)" for the smallest k >= 2 *)
(* no sibling has; the existing siblings keep their names; and three       *)
(* successive addNode(parent, "A", TREE) on a parent without such children *)
(* yield "A", "A (2)", "A (3)" in that order.                              *)
(***************************************************************************)
WithNumber(name, k) == name \o <<" ", "(">> \o NatToStr(k) \o <<")">>

ExpectedNodeName(names, requestedName) ==
    IF requestedName \notin names THEN requestedName
    ELSE WithNumber(requestedName,
           Min({k \in 2..(Cardinality(names) + 2) : WithNumber(requestedName, k) \notin names}))

nA == <<"A">>

ThreeAdds(t, chain) ==
    LET r1 == addNode(t, chain, nA, TYPE_TREE)
        r2 == addNode(r1.tree, chain, nA, TYPE_TREE)
        r3 == addNode(r2.tree, chain, nA, TYPE_TREE)
        before == NodeModel(t, chain).children
        after == NodeModel(r3.tree, chain).children
    IN  /\ r1.err = "none" /\ r2.err = "none" /\ r3.err = "none"
        /\ Len(after) = Len(before) + 3
        /\ SubSeq(after, 1, Len(before)) = before
        /\ after[Len(before) + 1].name = <<"A">>
        /\ after[Len(before) + 2].name = <<"A", " ", "(", "2", ")">>
        /\ after[Len(before) + 3].name = <<"A", " ", "(", "3", ")">>

C4_NewNodeName ==
    /\ Returned("addNode") =>
          LET before == NodeModel(prev, Target).children
              after == NodeModel(tree, Target).children
          IN  /\ Len(after) = Len(before) + 1
              /\ after[Len(after)].name =
                    ExpectedNodeName({before[i].name : i \in DOMAIN before}, last.name)
              /\ \A i \in DOMAIN before : after[i].name = before[i].name
    /\ \A path \in NodePaths(tree) :
          LET r == Resolved(path)
          IN  (/\ r.err = "none"
               /\ getNodeType(NodeModel(tree, r.node)) = TYPE_TREE
               /\ ChildNames(NodeModel(tree, r.node)) \cap
                     {nA, WithNumber(nA, 2), WithNumber(nA, 3)} = {})
              => ThreeAdds(tree, r.node)

\* the third node requested as "T" under one parent was named "T (3)"
C4_Witness ==
    /\ Returned("addNode")
    /\ last.name = nT
    /\ {nT, <<"T", " ", "(", "2", ")">>} \subseteq ChildNames(NodeModel(prev, Target))
    /\ LET after == NodeModel(tree, Target).children
       IN  after[Len(after)].name = <<"T", " ", "(", "3", ")">>

(***************************************************************************)
(* C5.  Claim: after renameNode(node, newName) on a child of a TREE node   *)
(* (also when the slug of newName equals the slug of the old name) the     *)
(* parent's data holds under slugify(newName) the value it held under      *)
(* slugify(oldName), and has no entry under the old slug when the two      *)
(* slugs differ.                                                           *)
(***************************************************************************)
C5_RenameMovesData ==
    (Returned("renameNode") /\ HasParent(Target)) =>
        LET oldKey == slugify(NodeModel(prev, Target).name)
            newKey == slugify(last.name)
            before == NodeData(prev, TargetParent)
            after == NodeData(tree, TargetParent)
        IN  /\ newKey \in OwnKeys(after)
            /\ GetProp(after, newKey) = GetProp(before, oldKey)
            /\ (oldKey # newKey => oldKey \notin OwnKeys(after))

(***************************************************************************)
(* C6, C7: the field update the last call made                             *)
(***************************************************************************)
\* the last call was updateFieldAt on an existing field and returned
UpdatedExisting ==
    /\ Returned("updateFieldAt")
    /\ last.fieldIndex.k = "number"
    /\ last.fieldIndex.n >= 0

PrevDecl == getField(NodeModel(prev, Target).fields[last.fieldIndex.n + 1])
NewDecl == getField(last.field)
StructNode == _getStructNode(Target)
ItemsBefore == DataItems(prev, StructNode)
ItemsAfter == DataItems(tree, StructNode)

(***************************************************************************)
(* C6.  Claim: after an updateFieldAt on an existing field that changes    *)
(* only the field's name, every item of the container holds under the new  *)
(* data key the value it held under the old data key, and no item has the  *)
(* old data key any more.                                                  *)
(***************************************************************************)
C6_RenameFieldKeepsValues ==
    (/\ UpdatedExisting
     /\ NewDecl.name # PrevDecl.name
     /\ NewDecl = [PrevDecl EXCEPT !.name = NewDecl.name]) =>
        /\ Len(ItemsAfter) = Len(ItemsBefore)
        /\ \A i \in DOMAIN ItemsBefore :
              /\ GetProp(ItemsAfter[i], slugify(NewDecl.name)) =
                    GetProp(ItemsBefore[i], slugify(PrevDecl.name))
              /\ (slugify(NewDecl.name) # slugify(PrevDecl.name)
                    => slugify(PrevDecl.name) \notin OwnKeys(ItemsAfter[i]))

(***************************************************************************)
(* C7.  Claim: when updateFieldAt changes the declared type of an existing *)
(* field, afterwards every item holds at the field's data key the          *)
(* converter's result for the value it held before (boolean: truthiness;   *)
(* string/markdown: the stringified value or ""; array: a one-element      *)
(* sequence of the old value), and the declaration at fieldIndex is the    *)
(* new field.                                                              *)
(***************************************************************************)
Converted(value, newType) ==
    IF newType = FIELD_TYPE_BOOLEAN THEN JsBool(Truthy(value))
    ELSE IF newType = FIELD_TYPE_ARRAY THEN JsArr(<<value>>, <<>>)
    ELSE IF Truthy(value) THEN JsStr(Stringify(value))
    ELSE JsStr(<<>>)

C7_RetypeConvertsValues ==
    (UpdatedExisting /\ NewDecl.type # PrevDecl.type) =>
        /\ NodeModel(tree, Target).fields[last.fieldIndex.n + 1] = last.field
        /\ Len(ItemsAfter) = Len(ItemsBefore)
        /\ \A i \in DOMAIN ItemsBefore :
              GetProp(ItemsAfter[i], slugify(NewDecl.name)) =
                 Converted(GetProp(ItemsBefore[i], slugify(PrevDecl.name)), NewDecl.type)

(***************************************************************************)
(* C8.  Claim: deleteFieldAt(node, i) fails whenever the field at index i  *)
(* is marked key or the container is MAP_STRING, leaving the field         *)
(* declarations and every item's data unchanged; canDeleteFieldAt(node, i) *)
(* returns false for the same inputs and changes nothing.                  *)
(***************************************************************************)
ProtectedField(t, chain, i) ==
    LET m == NodeModel(t, chain)
    IN  \/ m.hasFields /\ (i + 1) \in DOMAIN m.fields /\ m.fields[i + 1].key
        \/ getNodeType(m) = TYPE_MAP_STRING

C8_ProtectedFieldNotDeleted ==
    /\ (last.op = "deleteFieldAt" /\ ProtectedField(prev, Target, last.fieldIndex.n))
          => (last.err # "none" /\ last.can = FALSE /\ tree = prev)
    /\ (last.op = "canDeleteFieldAt" /\ ProtectedField(prev, Target, last.fieldIndex.n))
          => (last.can = FALSE /\ tree = prev)

\* deleteFieldAt was refused on the key field of a map of objects that has
\* an item
C8_Witness ==
    /\ last.op = "deleteFieldAt"
    /\ last.err = "KeyField"
    /\ getNodeType(NodeModel(prev, Target)) = TYPE_MAP_OBJECT
    /\ Len(DataItems(prev, _getStructNode(Target))) > 0

(***************************************************************************)
(* C9.  Claim: after addItem(container, name) on a container projection    *)
(* obtained by resolvePath returns {dataIndex, item}, resolving the        *)
(* container's path again and looking dataIndex up in its data yields the  *)
(* item, and getDataItems lists it.                                        *)
(***************************************************************************)
C9_AddedItemRetrievable ==
    Returned("addItem") =>
        LET r == findNode(tree, RootNode, Last(Target).path)
        IN  /\ r.err = "none"
            /\ GetProp(NodeData(tree, r.node), ToPropertyKey(last.dataIndex)) = last.item
            /\ getDataItems(tree, r.node).err = "none"
            /\ \E i \in DOMAIN DataItems(tree, r.node) :
                  DataItems(tree, r.node)[i] = last.item

\* a third item was appended to a list below a TREE node, under a name that
\* had to be numbered
C9_Witness ==
    /\ Returned("addItem")
    /\ getNodeType(NodeModel(tree, Target)) = TYPE_LIST_OBJECT
    /\ last.dataIndex = JsNum(2)
    /\ last.item = Obj1(<<"n", "a", "m", "e">>, JsStr(<<"x", " ", "(", "2", ")">>))
    /\ Len(Target) = 3

(***************************************************************************)
(* C10.  Claim: for a path through TREE nodes to a LIST_OBJECT, MAP_OBJECT *)
(* or MAP_STRING container followed by one item selector, treePathAndIndex *)
(* returns the path without its last segment as treePath and the last      *)
(* segment as dataIndex (an integer for LIST_OBJECT, the string for the    *)
(* map types); for a path that ends at a schema node it returns the whole  *)
(* path and dataIndex -1.                                                  *)
(***************************************************************************)
\* the addresses a path of slugs leads to: every step takes the first child
\* with the segment's slug
RECURSIVE FirstMatch(_, _)
FirstMatch(m, a) ==
    \/ a = <<>>
    \/ /\ \A j \in 1..(Head(a) - 1) :
             slugify(m.children[j].name) # slugify(m.children[Head(a)].name)
       /\ FirstMatch(m.children[Head(a)], Tail(a))

LedToAddrs(t) == {a \in NodeAddrs(t.model) : FirstMatch(t.model, a)}

ExpectedIndex(m, sel) ==
    IF getNodeType(m) = TYPE_LIST_OBJECT THEN JsNum(DigitsValue(sel, 0)) ELSE JsStr(sel)

\* the numeric selectors address list items, every selector a map item
SelectorsFor(m) ==
    IF getNodeType(m) = TYPE_LIST_OBJECT
    THEN {sel \in Selectors : \A i \in DOMAIN sel : IsDigit(sel[i])}
    ELSE Selectors

C10_TreePathAndIndex ==
    \A a \in LedToAddrs(tree) :
        LET m == ModelAt(tree.model, a)
            nodePath == Join(AddrSlugs(tree.model, a))
            r == treePathAndIndex(tree, nodePath)
        IN  /\ r.err = "none" /\ r.treePath = nodePath /\ r.dataIndex = JsNum(-1)
            /\ isItem(m) =>
                  \A sel \in SelectorsFor(m) :
                      LET ri == treePathAndIndex(tree, Join(Append(AddrSlugs(tree.model, a), sel)))
                      IN  /\ ri.err = "none"
                          /\ ri.treePath = nodePath
                          /\ ri.dataIndex = ExpectedIndex(m, sel)

(***************************************************************************)
(* Resolution of a key below a map container                               *)
(***************************************************************************)
\* the segments resolved below a map container: a key that may be stored
\* ("k1"), keys that are never stored ("0", "z"), and a name every object
\* inherits
MapSegments == Selectors \cup {<<"z">>, nConstructor}

\* the empty value of an item of a map container
EmptyItem(m) ==
    IF getNodeType(m) = TYPE_MAP_OBJECT THEN EmptyObj ELSE JsStr(<<>>)

\* resolvePath(root, cpath/k) agrees with the description when cpath resolves
\* to a map container: it returns, its dataIndex is the string k, its parent
\* is the container's projection and its data is the stored value or, when k
\* is not a key of the container, the empty value
ResolvesMapItem(cpath, k) ==
    LET c == findNode(tree, RootNode, cpath)
        r == findNode(tree, RootNode, cpath \o <<"/">> \o k)
        d == NodeData(tree, c.node)
    IN  (c.err = "none" /\ isMapType(NodeModel(tree, c.node))) =>
          /\ r.err = "none"
          /\ Last(r.node).dataIndex = JsStr(k)
          /\ Parent(r.node) = c.node
          /\ NodeData(tree, r.node) =
                IF k \in OwnKeys(d) THEN d.p[k]
                ELSE EmptyItem(NodeModel(tree, c.node))

\* C11: resolving the segment k below a map container returns a projection
\* whose dataIndex is the string k, whose parent is the container and whose
\* data is the stored value, or the empty default ({} for MAP_OBJECT, "" for
\* MAP_STRING) when k is not a key of the container.  (Resolution returns a
\* projection only; the document is not an output of findNode.)
C11_ResolveMapItem ==
    \A cpath \in ContainerPaths(tree) : \A k \in MapSegments :
        ResolvesMapItem(cpath, k)

\* the same for the segments that are not inherited property names
C11_ResolveOrdinaryKey ==
    \A cpath \in ContainerPaths(tree) : \A k \in MapSegments \ InheritedKeys :
        ResolvesMapItem(cpath, k)

(***************************************************************************)
(* Field deletion through every kind of projection                         *)
(***************************************************************************)
\* the container a projection denotes: the parent when the projection is an
\* item of it (an item shares the schema node of its container), else the
\* projection itself
DenotedContainer(chain) ==
    IF HasParent(chain) /\ Last(chain).maddr = Last(Parent(chain)).maddr
    THEN Parent(chain)
    ELSE chain

\* field i of the projection's schema node belongs to a LIST_OBJECT or
\* MAP_OBJECT container and is not the key field
DeletableField(t, chain, i) ==
    LET m == NodeModel(t, chain)
    IN  /\ getNodeType(m) \in {TYPE_LIST_OBJECT, TYPE_MAP_OBJECT}
        /\ m.hasFields
        /\ (i + 1) \in DOMAIN m.fields
        /\ ~m.fields[i + 1].key

\* between the documents before and after, field i of the container the
\* projection denotes has lost its declaration and no item holds its data
\* key
FieldRemoved(before, after, chain, i) ==
    LET cont == DenotedContainer(chain)
        fields == NodeModel(before, cont).fields
        items == DataItems(after, cont)
    IN  /\ NodeModel(after, cont).fields =
              SubSeq(fields, 1, i) \o SubSeq(fields, i + 2, Len(fields))
        /\ \A j \in DOMAIN items :
              slugify(getField(fields[i + 1]).name) \notin OwnKeys(items[j])

\* the container addNode has just returned loses a deletable field when
\* deleteFieldAt is called on the returned projection
DeletesOnReturned(i) ==
    LET res == deleteFieldAt(tree, last.node, i)
    IN  DeletableField(tree, last.node, i) =>
           res.err = "none" /\ FieldRemoved(tree, res.tree, last.node, i)

\* C12: deleteFieldAt on a deletable field of a LIST_OBJECT or MAP_OBJECT
\* container removes the field's data key from every item and removes the
\* declaration, whether the projection denotes the container (obtained from
\* resolvePath, from getChildren or from addNode) or one of its items.
C12_DeleteFieldThroughAnyProjection ==
    /\ (last.op = "deleteFieldAt" /\ DeletableField(prev, Target, last.fieldIndex.n))
          => (last.err = "none" /\ FieldRemoved(prev, tree, Target, last.fieldIndex.n))
    /\ Returned("addNode") => \A i \in 0..1 : DeletesOnReturned(i)

\* the same without the projections getChildren returns, which carry no
\* dataIndex
C12_DeleteFieldUnlessFromGetChildren ==
    /\ (/\ last.op = "deleteFieldAt"
        /\ Last(Target).dataIndex # Undefined
        /\ DeletableField(prev, Target, last.fieldIndex.n))
          => (last.err = "none" /\ FieldRemoved(prev, tree, Target, last.fieldIndex.n))
    /\ Returned("addNode") => \A i \in 0..1 : DeletesOnReturned(i)

(***************************************************************************)
(* Failure of a field update                                               *)
(***************************************************************************)
\* C13: updateFieldAt is all-or-nothing: when the call fails (for example
\* because the new type is unknown to the converter), the field declarations
\* and every item's data are exactly as before the call, also when the call
\* changes the field's name as well as its type.
C13_FailedUpdateChangesNothing ==
    (last.op = "updateFieldAt" /\ last.err # "none") => tree = prev

\* the same for the failed calls that do not change the field's name
C13_FailedRetypeChangesNothing ==
    (/\ last.op = "updateFieldAt"
     /\ last.err # "none"
     /\ last.fieldIndex.k = "number"
     /\ last.fieldIndex.n >= 0
     /\ NodeModel(prev, Target).hasFields
     /\ (last.fieldIndex.n + 1) \in DOMAIN NodeModel(prev, Target).fields
     /\ NewDecl.name = PrevDecl.name) => tree = prev

(***************************************************************************)
(* Item keys and field declarations                                        *)
(***************************************************************************)
\* the data keys the fields of a schema node declare
DeclaredKeys(m) ==
    IF m.hasFields
    THEN {slugify(getField(m.fields[i]).name) : i \in DOMAIN m.fields}
    ELSE {}

\* every data key of every item of the container the path resolves to is
\* declared by the container
ItemKeysDeclared(t, path) ==
    LET c == findNode(t, RootNode, path)
        m == NodeModel(t, c.node)
        items == DataItems(t, c.node)
    IN  (c.err = "none" /\ getNodeType(m) \in {TYPE_LIST_OBJECT, TYPE_MAP_OBJECT}) =>
           \A j \in DOMAIN items : OwnKeys(items[j]) \subseteq DeclaredKeys(m)

KeysDeclared(t) == \A path \in ContainerPaths(t) : ItemKeysDeclared(t, path)

ItemFieldOps == {"addItem", "updateFieldAt", "deleteFieldAt"}

\* C14: addItem, updateFieldAt and deleteFieldAt keep every data key of every
\* item of a LIST_OBJECT or MAP_OBJECT container the slug of a currently
\* declared field of that container.
C14_ItemKeysStayDeclared ==
    (last.op \in ItemFieldOps /\ KeysDeclared(prev)) => KeysDeclared(tree)

\* the same for the calls that return and do not rename a field to a key
\* field
C14_ItemKeysStayDeclaredUnlessFailedOrKey ==
    (/\ last.op \in ItemFieldOps
     /\ last.err = "none"
     /\ ~(last.op = "updateFieldAt" /\ getField(last.field).key)
     /\ KeysDeclared(prev)) => KeysDeclared(tree)

(***************************************************************************)
(* Items added to a container                                              *)
(***************************************************************************)
\* the data of the container addItem was called on, before and after
ContainerBefore == NodeData(prev, Target)
ContainerAfter == NodeData(tree, Target)

\* the map container has one more key, the returned one, and every earlier
\* entry is as before
MapItemAdded ==
    /\ last.dataIndex.k = "string"
    /\ last.dataIndex.s \notin OwnKeys(ContainerBefore)
    /\ OwnKeys(ContainerAfter) = OwnKeys(ContainerBefore) \cup {last.dataIndex.s}
    /\ \A k \in OwnKeys(ContainerBefore) :
          GetProp(ContainerAfter, k) = GetProp(ContainerBefore, k)

\* the list has the returned item appended after the earlier items, and its
\* default-field value differs from the one of every earlier item
ListItemAdded ==
    LET fld == defaultFieldName(NodeModel(prev, Target))
    IN  /\ ContainerAfter.e = Append(ContainerBefore.e, last.item)
        /\ ContainerAfter.p = ContainerBefore.p
        /\ last.dataIndex = JsNum(Len(ContainerBefore.e))
        /\ \A i \in DOMAIN ContainerBefore.e :
              GetProp(ContainerBefore.e[i], fld) # GetProp(last.item, fld)

\* C15: addItem never overwrites or alters an existing item.  On a map
\* container the returned key was not a key before the call and every
\* earlier entry is unchanged; on a list the item is appended last with a
\* default-field value different from every earlier item's; each call adds
\* exactly one item, so n calls add n.
C15_AddItemKeepsItems ==
    Returned("addItem") =>
        /\ IF isMapType(NodeModel(prev, Target)) THEN MapItemAdded ELSE ListItemAdded
        /\ Len(DataItems(tree, Target)) = Len(DataItems(prev, Target)) + 1

\* addItem was asked for a key the map of objects already had and returned
\* a numbered one
C15_Witness ==
    /\ Returned("addItem")
    /\ getNodeType(NodeModel(prev, Target)) = TYPE_MAP_OBJECT
    /\ last.name = <<"k", "1">>
    /\ last.name \in OwnKeys(ContainerBefore)
    /\ last.dataIndex = JsStr(<<"k", "1", " ", "(", "2", ")">>)

(***************************************************************************)
(* The path of an added node                                               *)
(***************************************************************************)
\* the path addNode returned for the new child
AddedPath == Last(last.node).path

\* the path getChildren(parent) gives the new child, the last declared one;
\* <<"?">> when getChildren has no such child
ListedPath ==
    LET kids == getChildren(tree, Target)
    IN  IF kids.err = "none" /\ kids.children # <<>>
        THEN Last(Last(kids.children)).path
        ELSE <<"?">>

\* resolvePath(root, path) returns a projection of the schema node and of
\* the data of the new child
ResolvesToAdded(path) ==
    LET r == findNode(tree, RootNode, path)
    IN  /\ r.err = "none"
        /\ Last(r.node).maddr = Last(last.node).maddr
        /\ NodeData(tree, r.node) = NodeData(tree, last.node)
        /\ Last(r.node).dlive = Last(last.node).dlive
        /\ Last(r.node).daddr = Last(last.node).daddr

\* C16: for every TREE parent obtained by resolvePath, the root (empty path)
\* included, the path of the projection addNode returns equals the path
\* getChildren(parent) gives that child, and resolvePath(root, that path)
\* returns a projection of the new schema node and its data.
C16_AddedPathResolves ==
    Returned("addNode") => (AddedPath = ListedPath /\ ResolvesToAdded(AddedPath))

\* the same for the parents other than the root, when no sibling has the
\* slug of the new child
C16_AddedPathResolvesBelowRoot ==
    (/\ Returned("addNode")
     /\ HasParent(Target)
     /\ \A i \in DOMAIN NodeModel(prev, Target).children :
           slugify(NodeModel(prev, Target).children[i].name) #
              slugify(NodeModel(tree, last.node).name))
        => (AddedPath = ListedPath /\ ResolvesToAdded(AddedPath))

\* at the root, the path getChildren gives the new child does resolve to it
C16_ListedPathResolvesAtRoot ==
    (/\ Returned("addNode")
     /\ ~HasParent(Target)
     /\ \A i \in DOMAIN NodeModel(prev, Target).children :
           slugify(NodeModel(prev, Target).children[i].name) #
              slugify(NodeModel(tree, last.node).name))
        => ResolvesToAdded(ListedPath)

(***************************************************************************)
(* Appending a field                                                       *)
(***************************************************************************)
\* the last call was updateFieldAt with no field index
AppendedField == last.op = "updateFieldAt" /\ last.fieldIndex \in NoFieldIndexes

\* the fields a schema node declares, none when it has no fields property
DeclaredFields(m) == IF m.hasFields THEN m.fields ELSE <<>>

\* the call returned, the node declares the earlier fields followed by the
\* new one, and no data changed
FieldAppended ==
    /\ last.err = "none"
    /\ DeclaredFields(NodeModel(tree, Target)) =
          Append(DeclaredFields(NodeModel(prev, Target)), last.field)
    /\ tree.data = prev.data

\* C17: updateFieldAt with fieldIndex undefined or -1 appends the field on
\* any node, whether or not the node declares fields already: one more
\* declaration, the earlier ones unchanged, no item's data changed.
C17_AppendFieldOnAnyNode == AppendedField => FieldAppended

\* the same for the nodes that have a fields property
C17_AppendFieldOnDeclaringNode ==
    (AppendedField /\ NodeModel(prev, Target).hasFields) => FieldAppended

(***************************************************************************)
(* Siblings of the child a node operation works on                         *)
(***************************************************************************)
\* the projection of the TREE node whose child the last call added, deleted
\* or renamed
Family == IF last.op = "addNode" THEN Target ELSE TargetParent

\* the display names of the child the call worked on: the name addNode gave
\* it, the name of the deleted child, the names before and after a renaming
OwnNames ==
    IF last.op = "addNode"
    THEN {_findNewNodeName(NodeModel(prev, Target), last.name, 1)}
    ELSE IF last.op = "deleteNode" THEN {NodeModel(prev, Target).name}
    ELSE {NodeModel(prev, Target).name, last.name}

ChildrenOf(m) == IF m.hasChildren THEN m.children ELSE <<>>

\* the schema entries of the children under another display name, in order
Siblings(t) ==
    LET Other(c) == c.name \notin OwnNames
    IN  SelectSeq(ChildrenOf(NodeModel(t, Family)), Other)

\* every sibling under another display name has the schema entry and the
\* stored data it had before the call
SiblingsUntouched ==
    /\ Siblings(tree) = Siblings(prev)
    /\ \A i \in DOMAIN Siblings(prev) :
          GetProp(NodeData(tree, Family), slugify(Siblings(prev)[i].name)) =
             GetProp(NodeData(prev, Family), slugify(Siblings(prev)[i].name))

\* the call worked on a child of a TREE node
OnChild == last.op \in NodeOps /\ (last.op = "addNode" \/ HasParent(Target))

\* C18: addNode, deleteNode and renameNode on one child never change the
\* schema entry or the stored data of any other child with a different
\* display name.
C18_SiblingsUntouched == OnChild => SiblingsUntouched

\* the same when no sibling under another display name has the slug of a
\* name of the child the call worked on
C18_SiblingsUntouchedUnlessSameSlug ==
    (/\ OnChild
     /\ \A i \in DOMAIN Siblings(prev) :
           slugify(Siblings(prev)[i].name) \notin {slugify(n) : n \in OwnNames})
        => SiblingsUntouched

(***************************************************************************)
(* treePathAndIndex against resolvePath                                    *)
(***************************************************************************)
\* the paths both functions are asked for: every schema node, the items
\* selected below every container, and below every schema node a segment
\* that names no child
ProbedPaths(t) ==
    NodePaths(t) \cup ItemPaths(t) \cup
    {Join(Append(AddrSlugs(t.model, a), <<"z">>)) : a \in NodeAddrs(t.model)}

\* on this path the two functions both fail, or both return and give the
\* same treePath and dataIndex
SamePlace(t, path) ==
    LET r == findNode(t, RootNode, path)
        tp == treePathAndIndex(t, path)
    IN  /\ (r.err = "none") <=> (tp.err = "none")
        /\ r.err = "none" =>
              /\ tp.treePath = Last(r.node).treePath
              /\ tp.dataIndex = Last(r.node).dataIndex

\* C19: treePathAndIndex and resolvePath agree on every path: when
\* resolvePath returns, treePathAndIndex returns the treePath and the
\* dataIndex of the resolved projection, and when one fails so does the
\* other.
C19_TreePathAgreesWithResolve ==
    \A path \in ProbedPaths(tree) : SamePlace(tree, path)

\* the same in the documents whose TREE data has exactly the keys of the
\* children
C19_TreePathAgreesWhenKeysMatch ==
    KeysMatchChildren(tree) => \A path \in ProbedPaths(tree) : SamePlace(tree, path)

(***************************************************************************)
(* The key field of a map container                                        *)
(***************************************************************************)
\* the schema node declares a field marked key
DeclaresKey(m) == m.hasFields /\ \E i \in DOMAIN m.fields : isKeyField(m.fields[i])

\* the last call was a field operation on a map container (or on one of
\* its items) that declared a key field
OnKeyedMap ==
    /\ last.op \in {"updateFieldAt", "deleteFieldAt"}
    /\ isMapType(NodeModel(prev, Target))
    /\ DeclaresKey(NodeModel(prev, Target))

\* C20: a MAP_OBJECT or MAP_STRING container, which addNode creates with a
\* key field, still declares a field marked key after every updateFieldAt
\* and deleteFieldAt on it.
C20_MapKeepsKeyField == OnKeyedMap => DeclaresKey(NodeModel(tree, Target))

\* the same for deleteFieldAt, and for updateFieldAt unless it replaces the
\* key field by a field that is not marked key
C20_MapKeepsKeyFieldUnlessReplaced ==
    (/\ OnKeyedMap
     /\ ~(/\ UpdatedExisting
          /\ ~isKeyField(last.field)
          /\ isKeyField(NodeModel(prev, Target).fields[last.fieldIndex.n + 1])))
        => DeclaresKey(NodeModel(tree, Target))
====
